---- MODULE Spec2Model ----
(***************************************************************************)
(* ArticlesService (backend/src/api/v1.0/articles/articles.service.ts):    *)
(* createArticle, getArticleById, updateArticle and deleteArticle over the  *)
(* user, article, sticker and articleSticker tables.  Every awaited Prisma  *)
(* call is one step of the request that issues it; requests interleave     *)
(* between steps.                                                          *)
(***************************************************************************)
EXTENDS Integers, Sequences, FiniteSets, TLC

(* ----------------------------- bounds ---------------------------------- *)
MaxArticleId == 2
MaxStickerId == 3
MaxTags == 2
MaxUserId == 3

Procs == {"r1", "r2"}
ExistingUsers == {[id |-> 1, login |-> "u1"], [id |-> 2, login |-> "u2"]}
UserIds == {1, 2, 3}
Logins == {"u1", "u2", "u3"}
Titles == {"T", "T2"}
Contents == {"C"}
Names == {"a", "b"}
ArticleIds == 1..MaxArticleId

(* ----------------------------- values ---------------------------------- *)
Range(s) == {s[i] : i \in DOMAIN s}
SeqsUpTo(S, n) == UNION {[1..k -> S] : k \in 0..n}
Orders(S) == {s \in [1..Cardinality(S) -> S] : Range(s) = S}

NoStickers == [given |-> FALSE, names |-> <<>>]
StickerLists == {NoStickers} \cup {[given |-> TRUE, names |-> s] : s \in SeqsUpTo(Names, MaxTags)}

NoArticle == [id |-> 0, userId |-> 0, title |-> "", content |-> ""]
NoRequest == [op |-> "none", id |-> 0, userId |-> 0, title |-> "", content |-> "", stickers |-> NoStickers,
              login |-> ""]
NoRows == [articles |-> {}, stickers |-> {}, links |-> {}]
NoTx == [status |-> "none", ins |-> NoRows, del |-> NoRows]
NoSnapshot == [users |-> {}, articles |-> {}, stickers |-> {}, links |-> {}]

(* ArticleRequestTo: userId, title, content, stickers?                     *)
ArticleRequestTo == {[op |-> "create", id |-> 0, userId |-> u, title |-> t, content |-> c, stickers |-> s,
                      login |-> ""] :
                        u \in UserIds, t \in Titles, c \in Contents, s \in StickerLists}

(* updateArticle(id, article): the same DTO, with the id of the route      *)
ArticleUpdates == {[op |-> "update", id |-> i, userId |-> u, title |-> t, content |-> c, stickers |-> s,
                    login |-> ""] :
                      i \in ArticleIds, u \in UserIds, t \in Titles, c \in Contents, s \in StickerLists}

(* UserRequestTo: login (password, firstname and lastname play no part)    *)
UserRequestTo == {[NoRequest EXCEPT !.op = "createUser", !.login = l] : l \in Logins}
UserUpdates == {[NoRequest EXCEPT !.op = "updateUser", !.id = i, !.login = l] :
                   i \in 1..MaxUserId, l \in Logins}

(* the exceptions the service throws, and the errors Prisma rejects with   *)
UnauthorizedException == "UnauthorizedException"
ForbiddenException == "ForbiddenException"
NotFoundException == "NotFoundException"
InternalServerErrorException == "InternalServerErrorException"
UniqueConstraintError == "P2002"
ForeignKeyError == "P2003"
RecordNotFoundError == "P2025"
DatabaseError == "DatabaseError"
ValidationError == "PrismaClientValidationError"
BcryptError == "Bcrypt error"
PersistenceErrors ==
    {UniqueConstraintError, ForeignKeyError, RecordNotFoundError, DatabaseError, ValidationError}

VARIABLES
    users, articles, stickers, links,   \* committed rows of the four tables
    userSeq, articleSeq, stickerSeq,    \* autoincrement sequences of user.id, article.id, sticker.id
    pc, req, ret,                       \* each request: position, argument, outcome
    tx,                                 \* each request's transaction: status and uncommitted writes
    stickerRecords, newArticle, stickerIds, idx,   \* locals of the transaction callbacks
    pre                                 \* committed rows when the call started

vars == <<users, articles, stickers, links, userSeq, articleSeq, stickerSeq, pc, req, ret, tx,
          stickerRecords, newArticle, stickerIds, idx, pre>>
tables == <<users, articles, stickers, links>>
locals == <<stickerRecords, newArticle, stickerIds, idx>>

Committed == [users |-> users, articles |-> articles, stickers |-> stickers, links |-> links]

(* ------------------------- transaction client -------------------------- *)
(* Rows a request reads through tx: the committed rows, less the rows it   *)
(* deleted, plus the rows it inserted (read committed, read-your-writes).  *)
View(p) ==
    [articles |-> (articles \ tx[p].del.articles) \cup tx[p].ins.articles,
     stickers |-> (stickers \ tx[p].del.stickers) \cup tx[p].ins.stickers,
     links    |-> (links \ tx[p].del.links) \cup tx[p].ins.links]

Inserted(t, table, rows) ==
    [t EXCEPT !.ins[table] = @ \cup rows]
Deleted(t, table, rows) ==
    [t EXCEPT !.ins[table] = @ \ rows, !.del[table] = @ \cup (rows \ t.ins[table])]

(* rows that another open transaction has written and not yet committed    *)
OthersOpen(p) == {q \in Procs \ {p} : tx[q].status = "open"}
OthersDeleted(p, table) == UNION {tx[q].del[table] : q \in OthersOpen(p)}
OthersInserted(p, table) == UNION {tx[q].ins[table] : q \in OthersOpen(p)}

(* the committed rows after transaction t commits, and after it aborts     *)
Apply(T, t) ==
    [users    |-> T.users,
     articles |-> (T.articles \ t.del.articles) \cup t.ins.articles,
     stickers |-> (T.stickers \ t.del.stickers) \cup t.ins.stickers,
     links    |-> (T.links \ t.del.links) \cup t.ins.links]
(* variants of Committing: only the article rows, or all but the link rows *)
(* written, become visible                                                 *)
CommittingArticlesOnly(T, t) ==
    Apply(T, [t EXCEPT !.ins.stickers = {}, !.ins.links = {}, !.del.stickers = {}, !.del.links = {}])
CommittingWithoutLinks(T, t) == Apply(T, [t EXCEPT !.ins.links = {}])
Committing(T, t) == Apply(T, t)
(* variants of RolledBack: the inserts, or the deletes, outlive the abort  *)
RolledBackKeepingInserts(T, t) == Apply(T, [t EXCEPT !.del = NoRows])
RolledBackKeepingDeletes(T, t) == Apply(T, [t EXCEPT !.ins = NoRows])
RolledBack(T, t) == T

SetTables(T) ==
    /\ users' = T.users
    /\ articles' = T.articles
    /\ stickers' = T.stickers
    /\ links' = T.links

(* ----------------------------- Prisma calls ---------------------------- *)
(* variant of UserFindUnique: the where clause is lost                     *)
UserFindAny(id) == users
UserFindUnique(id) == {u \in users : u.id = id}
(* variant of ArticleFindUniqueTitle: the title is compared with content   *)
ArticleFindUniqueContent(rows, title) == {a \in rows : a.content = title}
ArticleFindUniqueTitle(rows, title) == {a \in rows : a.title = title}
(* variant of ArticleFindUniqueId: the where clause is lost                *)
ArticleFindAny(rows, id) == rows
ArticleFindUniqueId(rows, id) == {a \in rows : a.id = id}
(* variant of StickerFindFirst: the lookup finds nothing                   *)
StickerFindFirstNothing(rows, name) == {}
StickerFindFirst(rows, name) == {s \in rows : s.name = name}
StickerById(rows, id) == {s \in rows : s.id = id}
(* variant of ArticleStickerFindMany: the links of every other article     *)
ArticleStickerFindManyOthers(rows, id) == {l \in rows : l.articleId # id}
ArticleStickerFindMany(rows, id) == {l \in rows : l.articleId = id}
(* variant of ArticleStickerDeleteMany: the where clause is lost           *)
ArticleStickerDeleteAll(rows, id) == rows
(* variant of ArticleStickerDeleteMany: no row is deleted                  *)
ArticleStickerDeleteNone(rows, id) == {}
(* variant of ArticleStickerDeleteMany: every link of the article's        *)
(* stickers is deleted                                                     *)
ArticleStickerDeleteManyOfStickers(rows, id) ==
    {l \in rows : \E m \in rows : m.articleId = id /\ m.stickerId = l.stickerId}
ArticleStickerDeleteMany(rows, id) == {l \in rows : l.articleId = id}
(* variant of ArticleStickerCount: the count finds no row                  *)
ArticleStickerCountZero(rows, stickerId, id) == 0
(* variant of ArticleStickerCount: the stickerId filter is lost            *)
ArticleStickerCountOthers(rows, stickerId, id) ==
    Cardinality({l \in rows : l.articleId # id})
ArticleStickerCount(rows, stickerId, id) ==
    Cardinality({l \in rows : l.stickerId = stickerId /\ l.articleId # id})
(* variant of LinksOfSticker: the reference is not checked                 *)
LinksOfStickerNone(rows, stickerId) == {}
LinksOfSticker(rows, stickerId) == {l \in rows : l.stickerId = stickerId}

(* variant of UserFindUniqueLogin: the lookup finds nothing                *)
UserFindUniqueLoginNothing(rows, login) == {}
UserFindUniqueLogin(rows, login) == {u \in rows : u.login = login}
(* variant of LoginConflict: the login is not unique                       *)
LoginConflictNever(rows, login) == FALSE
(* user.login is unique (it is the key of findUnique)                      *)
LoginConflict(rows, login) == \E u \in rows : u.login = login

(* constraints of the schema: article.title is unique (it is the key of    *)
(* findUnique), article.userId references user, articleSticker references  *)
(* article and sticker                                                     *)
(* variant of TitleConflict: the title is not unique                       *)
TitleConflictNever(rows, title) == FALSE
TitleConflict(rows, title) == \E a \in rows : a.title = title
(* variant of UserMissing: the reference is not checked                    *)
UserMissingNever(id) == FALSE
UserMissing(id) == \A u \in users : u.id # id
(* sticker.name, when the schema makes it unique                           *)
NameConflict(rows, name) == \E s \in rows : s.name = name
StickerMissing(rows, stickerId) == \A s \in rows : s.id # stickerId

(* variant of LinkData: the last record gets no row                        *)
LinkDataWithoutLast(records, articleId) ==
    [i \in 1..(Len(records) - 1) |-> [articleId |-> articleId, stickerId |-> records[i].id]]
(* articleSticker.createMany data: one row per element of stickerRecords   *)
LinkData(records, articleId) ==
    [i \in DOMAIN records |-> [articleId |-> articleId, stickerId |-> records[i].id]]
(* the link's key is the pair (articleId, stickerId)                       *)
LinkKeyConflict(rows, data) ==
    \/ \E i, j \in DOMAIN data : i # j /\ data[i] = data[j]
    \/ \E i \in DOMAIN data : data[i] \in rows

(* ------------------------------ outcomes ------------------------------- *)
Finish(p, outcome) ==
    /\ pc' = [pc EXCEPT ![p] = "done"]
    /\ ret' = [ret EXCEPT ![p] = outcome]

(* variant of TransactionRethrow: the rejection is replaced                *)
TransactionWrapped(error) == InternalServerErrorException
(* lines 36, 119: $transaction is awaited without try/catch, its rejection *)
(* is the call's rejection                                                 *)
TransactionRethrow(error) == error

(* variant of Rollback: the transaction is left open                       *)
RollbackLeavingOpen(p, error) ==
    /\ Finish(p, TransactionRethrow(error))
    /\ UNCHANGED <<tables, tx>>
(* a rejected call inside the callback: $transaction rolls back, rethrows; *)
(* tx[p] keeps the writes the transaction had made                         *)
Rollback(p, error) ==
    /\ Finish(p, TransactionRethrow(error))
    /\ SetTables(RolledBack(Committed, tx[p]))
    /\ tx' = [tx EXCEPT ![p].status = "rolledback"]

Begin(p) == tx' = [tx EXCEPT ![p] = [NoTx EXCEPT !.status = "open"]]

(* ------------------------------- Init ---------------------------------- *)
Init ==
    /\ users = ExistingUsers
    /\ articles = {}
    /\ stickers = {}
    /\ links = {}
    /\ userSeq = Cardinality(ExistingUsers) + 1
    /\ articleSeq = 1
    /\ stickerSeq = 1
    /\ pc = [p \in Procs |-> "idle"]
    /\ req = [p \in Procs |-> NoRequest]
    /\ ret = [p \in Procs |-> "none"]
    /\ tx = [p \in Procs |-> NoTx]
    /\ stickerRecords = [p \in Procs |-> <<>>]
    /\ newArticle = [p \in Procs |-> NoArticle]
    /\ stickerIds = [p \in Procs |-> <<>>]
    /\ idx = [p \in Procs |-> 0]
    /\ pre = [p \in Procs |-> NoSnapshot]

(* one request at a time: a request starts only when no other is running   *)
Alone(p) == \A q \in Procs \ {p} : pc[q] = "idle"

(* a request arrives at the controller; pre keeps the snapshot of the      *)
(* committed rows that the specification hands in                          *)
Call(p, r, first, snapshot) ==
    /\ pc[p] = "idle"
    /\ pc' = [pc EXCEPT ![p] = first]
    /\ req' = [req EXCEPT ![p] = r]
    /\ ret' = [ret EXCEPT ![p] = "pending"]
    /\ pre' = [pre EXCEPT ![p] = snapshot]
    /\ UNCHANGED <<tables, userSeq, articleSeq, stickerSeq, tx, locals>>

(* the response is sent; the request's frame is gone                       *)
Return(p) ==
    /\ pc[p] = "done"
    /\ pc' = [pc EXCEPT ![p] = "idle"]
    /\ req' = [req EXCEPT ![p] = NoRequest]
    /\ ret' = [ret EXCEPT ![p] = "none"]
    /\ tx' = [tx EXCEPT ![p] = NoTx]
    /\ stickerRecords' = [stickerRecords EXCEPT ![p] = <<>>]
    /\ newArticle' = [newArticle EXCEPT ![p] = NoArticle]
    /\ stickerIds' = [stickerIds EXCEPT ![p] = <<>>]
    /\ idx' = [idx EXCEPT ![p] = 0]
    /\ pre' = [pre EXCEPT ![p] = NoSnapshot]
    /\ UNCHANGED <<tables, userSeq, articleSeq, stickerSeq>>

(* ---------------------------- createArticle ---------------------------- *)
(* the requests that run interleaved: owner 1 or the missing owner, at     *)
(* most one sticker name, "a"                                              *)
ConcurrentRequests ==
    {r \in ArticleRequestTo :
        /\ r.userId \in {1} \cup (UserIds \ {u.id : u \in ExistingUsers})
        /\ Len(r.stickers.names) <= 1
        /\ Range(r.stickers.names) \subseteq {"a"}}

CallCreateArticle(p, requests, snapshot) ==
    \E article \in requests :
        /\ articleSeq <= MaxArticleId
        /\ stickerSeq + Len(article.stickers.names) <= MaxStickerId + 1
        /\ Call(p, article, "c_user", snapshot)

(* variant of OwnerMissing: the check of line 22 is lost                   *)
OwnerMissingNever(user) == FALSE
(* line 22: !user                                                          *)
OwnerMissing(user) == user = {}

(* lines 18-24: user.findUnique, UnauthorizedException                     *)
CreateFindUser(p) ==
    /\ pc[p] = "c_user"
    /\ LET user == UserFindUnique(req[p].userId) IN
         IF OwnerMissing(user)
         THEN Finish(p, UnauthorizedException)
         ELSE /\ pc' = [pc EXCEPT ![p] = "c_title"]
              /\ UNCHANGED ret
    /\ UNCHANGED <<tables, userSeq, articleSeq, stickerSeq, req, tx, locals, pre>>

(* the loop of lines 38-53 is entered when stickers is given and not yet   *)
(* exhausted; otherwise the callback goes on to article.create             *)
CreateLoopPc(p, i) ==
    IF req[p].stickers.given /\ i <= Len(req[p].stickers.names) THEN "c_find" ELSE "c_article"

(* lines 26-36: article.findUnique by title, ForbiddenException; when the  *)
(* title is free $transaction starts and the callback runs up to its first *)
(* await                                                                   *)
CreateFindTitle(p) ==
    /\ pc[p] = "c_title"
    /\ LET articleWithTitle == ArticleFindUniqueTitle(articles, req[p].title) IN
         IF articleWithTitle # {}
         THEN /\ Finish(p, ForbiddenException)
              /\ UNCHANGED <<tx, idx>>
         ELSE /\ Begin(p)
              /\ idx' = [idx EXCEPT ![p] = 1]
              /\ pc' = [pc EXCEPT ![p] = CreateLoopPc(p, 1)]
              /\ UNCHANGED ret
    /\ UNCHANGED <<tables, userSeq, articleSeq, stickerSeq, req, stickerRecords, newArticle, stickerIds, pre>>

(* lines 40-44, 49-51: tx.sticker.findFirst; a found sticker is pushed     *)
CreateFindSticker(p) ==
    /\ pc[p] = "c_find"
    /\ tx[p].status = "open"
    /\ LET sticker == req[p].stickers.names[idx[p]]
           find_sticker == StickerFindFirst(View(p).stickers, sticker) IN
         IF find_sticker = {}
         THEN /\ pc' = [pc EXCEPT ![p] = "c_sticker"]
              /\ UNCHANGED <<stickerRecords, idx>>
         ELSE \E found \in find_sticker :
              /\ stickerRecords' = [stickerRecords EXCEPT ![p] = Append(@, found)]
              /\ idx' = [idx EXCEPT ![p] = @ + 1]
              /\ pc' = [pc EXCEPT ![p] = CreateLoopPc(p, idx[p] + 1)]
    /\ UNCHANGED <<tables, userSeq, articleSeq, stickerSeq, req, ret, tx, newArticle, stickerIds, pre>>

(* lines 45-48: tx.sticker.create, the new sticker is pushed. Whether the  *)
(* schema makes sticker.name unique is not known ("if the database has a   *)
(* constraint"): without the constraint the row is inserted next to a row  *)
(* of the same name; with it the insert waits for an open transaction that *)
(* has inserted the name and is rejected once a row of that name is there. *)
CreateSticker(p) ==
    /\ pc[p] = "c_sticker"
    /\ tx[p].status = "open"
    /\ stickerSeq' = stickerSeq + 1
    /\ LET newSticker == [id |-> stickerSeq, name |-> req[p].stickers.names[idx[p]]] IN
         \/ /\ tx' = [tx EXCEPT ![p] = Inserted(@, "stickers", {newSticker})]
            /\ stickerRecords' = [stickerRecords EXCEPT ![p] = Append(@, newSticker)]
            /\ idx' = [idx EXCEPT ![p] = @ + 1]
            /\ pc' = [pc EXCEPT ![p] = CreateLoopPc(p, idx[p] + 1)]
            /\ UNCHANGED <<tables, ret>>
         \/ /\ NameConflict(View(p).stickers, newSticker.name)
            /\ ~NameConflict(OthersInserted(p, "stickers"), newSticker.name)
            /\ Rollback(p, UniqueConstraintError)
            /\ UNCHANGED <<stickerRecords, idx>>
    /\ UNCHANGED <<userSeq, articleSeq, req, newArticle, stickerIds, pre>>

(* line 34: the row's data is the request without its stickers             *)
ArticleData(article, id) ==
    [id |-> id, userId |-> article.userId, title |-> article.title, content |-> article.content]

(* variant of LinksNeeded: createMany is called whatever the length        *)
LinksNeededAlways(records) == TRUE
(* line 59: createMany is called when a sticker was resolved               *)
LinksNeeded(records) == Len(records) > 0

(* lines 55-59: tx.article.create. The title is unique and userId is a     *)
(* foreign key; an insert of a title that another open transaction has     *)
(* inserted waits for that transaction.                                    *)
CreateArticleRow(p) ==
    /\ pc[p] = "c_article"
    /\ tx[p].status = "open"
    /\ ~TitleConflict(OthersInserted(p, "articles"), req[p].title)
    /\ articleSeq' = articleSeq + 1
    /\ IF TitleConflict(View(p).articles, req[p].title)
       THEN Rollback(p, UniqueConstraintError) /\ UNCHANGED newArticle
       ELSE IF UserMissing(req[p].userId)
       THEN Rollback(p, ForeignKeyError) /\ UNCHANGED newArticle
       ELSE LET created == ArticleData(req[p], articleSeq) IN
            /\ newArticle' = [newArticle EXCEPT ![p] = created]
            /\ tx' = [tx EXCEPT ![p] = Inserted(@, "articles", {created})]
            /\ pc' = [pc EXCEPT ![p] = IF LinksNeeded(stickerRecords[p]) THEN "c_links" ELSE "c_commit"]
            /\ UNCHANGED <<tables, ret>>
    /\ UNCHANGED <<userSeq, stickerSeq, req, stickerRecords, stickerIds, idx, pre>>

(* lines 60-65: tx.articleSticker.createMany. A link to a sticker that     *)
(* another open transaction has deleted waits for that transaction.        *)
CreateLinks(p) ==
    /\ pc[p] = "c_links"
    /\ tx[p].status = "open"
    /\ LET data == LinkData(stickerRecords[p], newArticle[p].id) IN
         /\ \A i \in DOMAIN data : StickerMissing(OthersDeleted(p, "stickers"), data[i].stickerId)
         /\ IF LinkKeyConflict(View(p).links, data)
            THEN Rollback(p, UniqueConstraintError)
            ELSE IF \E i \in DOMAIN data : StickerMissing(View(p).stickers, data[i].stickerId)
            THEN Rollback(p, ForeignKeyError)
            ELSE /\ tx' = [tx EXCEPT ![p] = Inserted(@, "links", Range(data))]
                 /\ pc' = [pc EXCEPT ![p] = "c_commit"]
                 /\ UNCHANGED <<tables, ret>>
    /\ UNCHANGED <<userSeq, articleSeq, stickerSeq, req, locals, pre>>

(* the callback returned: $transaction commits and the call resolves       *)
Commit(p) ==
    /\ pc[p] \in {"c_commit", "d_commit"}
    /\ tx[p].status = "open"
    /\ SetTables(Committing(Committed, tx[p]))
    /\ tx' = [tx EXCEPT ![p].status = "committed"]
    /\ Finish(p, "OK")
    /\ UNCHANGED <<userSeq, articleSeq, stickerSeq, req, locals, pre>>

(* any call on tx may be rejected by the database (connection, timeout)    *)
TxFault(p) ==
    /\ tx[p].status = "open"
    /\ Rollback(p, DatabaseError)
    /\ UNCHANGED <<userSeq, articleSeq, stickerSeq, req, locals, pre>>

(* ---------------------------- getArticleById --------------------------- *)
CallGetArticle(p, snapshot) ==
    \E id \in ArticleIds :
        Call(p, [NoRequest EXCEPT !.op = "get", !.id = id], "g_find", snapshot)

(* lines 76-86: article.findUnique by id                                   *)
GetArticleById(p) ==
    /\ pc[p] = "g_find"
    /\ LET article == ArticleFindUniqueId(articles, req[p].id) IN
         IF article = {}
         THEN Finish(p, UnauthorizedException) /\ UNCHANGED newArticle
         ELSE /\ Finish(p, "OK")
              /\ newArticle' = [newArticle EXCEPT ![p] = CHOOSE a \in article : TRUE]
    /\ UNCHANGED <<tables, userSeq, articleSeq, stickerSeq, req, tx, stickerRecords, stickerIds, idx, pre>>

(* ---------------------------- updateArticle ---------------------------- *)
(* the updates that run interleaved: owner 1, no stickers                  *)
ConcurrentUpdates == {r \in ArticleUpdates : r.userId = 1 /\ ~r.stickers.given}

CallUpdateArticle(p, requests, snapshot) ==
    \E article \in requests : Call(p, article, "u_find", snapshot)

(* variant of UpdateMissing: the check of line 96 is lost                  *)
UpdateMissingNever(existArticle) == FALSE
(* line 96: !existArticle                                                  *)
UpdateMissing(existArticle) == existArticle = {}

(* lines 92-98: article.findUnique by id, UnauthorizedException            *)
UpdateFindArticle(p) ==
    /\ pc[p] = "u_find"
    /\ LET existArticle == ArticleFindUniqueId(articles, req[p].id) IN
         IF UpdateMissing(existArticle)
         THEN Finish(p, UnauthorizedException)
         ELSE /\ pc' = [pc EXCEPT ![p] = "u_write"]
              /\ UNCHANGED ret
    /\ UNCHANGED <<tables, userSeq, articleSeq, stickerSeq, req, tx, locals, pre>>

(* line 103: data is the whole request: userId, title, content             *)
ArticleUpdateData(row, article) ==
    [row EXCEPT !.userId = article.userId, !.title = article.title, !.content = article.content]

(* variant of ArticleUpdate: the row is removed and not written back       *)
ArticleUpdateLosingRow(all, rows, updated) == all \ rows
(* lines 101-104: article.update replaces the row that has the id          *)
ArticleUpdate(all, rows, updated) == (all \ rows) \cup {updated}

(* variant of UpdateCatch: the error is rethrown as it is                  *)
UpdateRethrow(error) == error
(* lines 105-107: whatever the update rejected with, the service throws    *)
(* InternalServerErrorException                                            *)
UpdateCatch(error) == InternalServerErrorException

(* the rejection the database answers the update with, "none" when it      *)
(* accepts: data.stickers is a string[], which no field of article takes;  *)
(* the row must exist; the title is unique; userId references user         *)
ArticleUpdateError(rows, all, article) ==
    IF article.stickers.given THEN ValidationError
    ELSE IF rows = {} THEN RecordNotFoundError
    ELSE IF TitleConflict(all \ rows, article.title) THEN UniqueConstraintError
    ELSE IF UserMissing(article.userId) THEN ForeignKeyError
    ELSE "none"

(* lines 100-107: article.update outside any transaction, one statement    *)
(* that commits by itself. It waits for an open transaction that has       *)
(* deleted the row or has written a row with the new title; it may be      *)
(* rejected by the database for a reason of its own (connection, timeout). *)
UpdateArticleRow(p) ==
    /\ pc[p] = "u_write"
    /\ LET rows == ArticleFindUniqueId(articles, req[p].id)
           error == ArticleUpdateError(rows, articles, req[p]) IN
         \/ /\ Finish(p, UpdateCatch(DatabaseError))
            /\ UNCHANGED <<articles, newArticle>>
         \/ /\ error = ValidationError
            /\ Finish(p, UpdateCatch(error))
            /\ UNCHANGED <<articles, newArticle>>
         \/ /\ error # ValidationError
            /\ rows \cap OthersDeleted(p, "articles") = {}
            /\ ~TitleConflict(OthersInserted(p, "articles") \cup OthersDeleted(p, "articles"), req[p].title)
            /\ IF error # "none"
               THEN /\ Finish(p, UpdateCatch(error))
                    /\ UNCHANGED <<articles, newArticle>>
               ELSE \E row \in rows :
                    LET updated == ArticleUpdateData(row, req[p]) IN
                    /\ articles' = ArticleUpdate(articles, rows, updated)
                    /\ newArticle' = [newArticle EXCEPT ![p] = updated]
                    /\ Finish(p, "OK")
    /\ UNCHANGED <<users, stickers, links, userSeq, articleSeq, stickerSeq, req, tx, stickerRecords, stickerIds, idx, pre>>

(* ---------------------------- deleteArticle ---------------------------- *)
CallDeleteArticle(p, snapshot) ==
    \E id \in ArticleIds :
        Call(p, [NoRequest EXCEPT !.op = "delete", !.id = id], "d_find", snapshot)

(* lines 111-119: article.findUnique by id, NotFoundException; when the    *)
(* article exists $transaction starts                                      *)
DeleteFindArticle(p) ==
    /\ pc[p] = "d_find"
    /\ LET existArticle == ArticleFindUniqueId(articles, req[p].id) IN
         IF existArticle = {}
         THEN Finish(p, NotFoundException) /\ UNCHANGED tx
         ELSE /\ Begin(p)
              /\ pc' = [pc EXCEPT ![p] = "d_links"]
              /\ UNCHANGED ret
    /\ UNCHANGED <<tables, userSeq, articleSeq, stickerSeq, req, locals, pre>>

(* lines 120-127: tx.articleSticker.findMany, in the order the database    *)
(* returns the rows; stickerIds keeps that order                           *)
DeleteFindLinks(p) ==
    /\ pc[p] = "d_links"
    /\ tx[p].status = "open"
    /\ \E articleStickers \in Orders(ArticleStickerFindMany(View(p).links, req[p].id)) :
         stickerIds' = [stickerIds EXCEPT ![p] = [i \in DOMAIN articleStickers |-> articleStickers[i].stickerId]]
    /\ pc' = [pc EXCEPT ![p] = "d_unlink"]
    /\ UNCHANGED <<tables, userSeq, articleSeq, stickerSeq, req, ret, tx, stickerRecords, newArticle, idx, pre>>

DeleteLoopPc(p, i) == IF i <= Len(stickerIds[p]) THEN "d_count" ELSE "d_article"

(* lines 129-131: tx.articleSticker.deleteMany; a row that another open    *)
(* transaction has deleted makes the statement wait for that transaction   *)
DeleteLinks(p) ==
    /\ pc[p] = "d_unlink"
    /\ tx[p].status = "open"
    /\ LET rows == ArticleStickerDeleteMany(View(p).links, req[p].id) IN
         /\ rows \cap OthersDeleted(p, "links") = {}
         /\ tx' = [tx EXCEPT ![p] = Deleted(@, "links", rows)]
    /\ idx' = [idx EXCEPT ![p] = 1]
    /\ pc' = [pc EXCEPT ![p] = DeleteLoopPc(p, 1)]
    /\ UNCHANGED <<tables, userSeq, articleSeq, stickerSeq, req, ret, stickerRecords, newArticle, stickerIds, pre>>

(* lines 133-141: tx.articleSticker.count of the sticker's other links     *)
DeleteCount(p) ==
    /\ pc[p] = "d_count"
    /\ tx[p].status = "open"
    /\ LET otherConnections == ArticleStickerCount(View(p).links, stickerIds[p][idx[p]], req[p].id) IN
         IF otherConnections = 0
         THEN /\ pc' = [pc EXCEPT ![p] = "d_sticker"]
              /\ UNCHANGED idx
         ELSE /\ idx' = [idx EXCEPT ![p] = @ + 1]
              /\ pc' = [pc EXCEPT ![p] = DeleteLoopPc(p, idx[p] + 1)]
    /\ UNCHANGED <<tables, userSeq, articleSeq, stickerSeq, req, ret, tx, stickerRecords, newArticle, stickerIds, pre>>

(* variant of StickerDelete: the statement is lost                         *)
StickerDeleteSkipped(t, rows) == t
(* lines 141-145: tx.sticker.delete                                        *)
StickerDelete(t, rows) == Deleted(t, "stickers", rows)

(* lines 142-145: tx.sticker.delete. It waits for an open transaction that *)
(* has deleted the sticker or inserted a link to it; a missing sticker and *)
(* a sticker that still has links are rejected.                            *)
DeleteSticker(p) ==
    /\ pc[p] = "d_sticker"
    /\ tx[p].status = "open"
    /\ LET stickerId == stickerIds[p][idx[p]]
           rows == StickerById(View(p).stickers, stickerId) IN
         /\ rows \cap OthersDeleted(p, "stickers") = {}
         /\ LinksOfSticker(OthersInserted(p, "links"), stickerId) = {}
         /\ IF rows = {}
            THEN Rollback(p, RecordNotFoundError) /\ UNCHANGED idx
            ELSE IF LinksOfSticker(View(p).links, stickerId) # {}
            THEN Rollback(p, ForeignKeyError) /\ UNCHANGED idx
            ELSE /\ tx' = [tx EXCEPT ![p] = StickerDelete(@, rows)]
                 /\ idx' = [idx EXCEPT ![p] = @ + 1]
                 /\ pc' = [pc EXCEPT ![p] = DeleteLoopPc(p, idx[p] + 1)]
                 /\ UNCHANGED <<tables, ret>>
    /\ UNCHANGED <<userSeq, articleSeq, stickerSeq, req, stickerRecords, newArticle, stickerIds, pre>>

(* variant of ArticleDelete: the statement is lost                         *)
ArticleDeleteSkipped(t, rows) == t
(* line 148: tx.article.delete                                             *)
ArticleDelete(t, rows) == Deleted(t, "articles", rows)

DeleteArticleRow(p) ==
    /\ pc[p] = "d_article"
    /\ tx[p].status = "open"
    /\ LET rows == ArticleFindUniqueId(View(p).articles, req[p].id) IN
         /\ rows \cap OthersDeleted(p, "articles") = {}
         /\ IF rows = {}
            THEN Rollback(p, RecordNotFoundError)
            ELSE IF \E l \in View(p).links : l.articleId = req[p].id
            THEN Rollback(p, ForeignKeyError)
            ELSE /\ tx' = [tx EXCEPT ![p] = ArticleDelete(@, rows)]
                 /\ pc' = [pc EXCEPT ![p] = "d_commit"]
                 /\ UNCHANGED <<tables, ret>>
    /\ UNCHANGED <<userSeq, articleSeq, stickerSeq, req, locals, pre>>

(* ------------------------------ UsersService --------------------------- *)
CallCreateUser(p, snapshot) ==
    \E user \in UserRequestTo :
        /\ userSeq <= MaxUserId
        /\ Call(p, user, "cu_find", snapshot)

(* createUser: user.findUnique by login, ForbiddenException                *)
CreateUserFind(p) ==
    /\ pc[p] = "cu_find"
    /\ LET existUser == UserFindUniqueLogin(users, req[p].login) IN
         IF existUser # {}
         THEN Finish(p, ForbiddenException)
         ELSE /\ pc' = [pc EXCEPT ![p] = "cu_hash"]
              /\ UNCHANGED ret
    /\ UNCHANGED <<tables, userSeq, articleSeq, stickerSeq, req, tx, locals, pre>>

(* createUser: bcrypt.genSalt and bcrypt.hash; their rejection is the      *)
(* call's rejection                                                        *)
CreateUserHash(p) ==
    /\ pc[p] = "cu_hash"
    /\ \/ pc' = [pc EXCEPT ![p] = "cu_create"] /\ UNCHANGED ret
       \/ Finish(p, BcryptError)
    /\ UNCHANGED <<tables, userSeq, articleSeq, stickerSeq, req, tx, locals, pre>>

(* createUser: user.create, one statement that commits by itself; the      *)
(* database may reject it (duplicate login, connection)                    *)
CreateUserRow(p) ==
    /\ pc[p] = "cu_create"
    /\ userSeq' = userSeq + 1
    /\ \/ Finish(p, DatabaseError) /\ UNCHANGED users
       \/ IF LoginConflict(users, req[p].login)
          THEN Finish(p, UniqueConstraintError) /\ UNCHANGED users
          ELSE /\ users' = users \cup {[id |-> userSeq, login |-> req[p].login]}
               /\ Finish(p, "OK")
    /\ UNCHANGED <<articles, stickers, links, articleSeq, stickerSeq, req, tx, locals, pre>>

CallUpdateUser(p, snapshot) ==
    \E user \in UserUpdates : Call(p, user, "uu_find", snapshot)

(* updateUser: user.findUnique by id, NotFoundException                    *)
UpdateUserFind(p) ==
    /\ pc[p] = "uu_find"
    /\ LET existUser == UserFindUnique(req[p].id) IN
         IF existUser = {}
         THEN Finish(p, NotFoundException)
         ELSE /\ pc' = [pc EXCEPT ![p] = "uu_write"]
              /\ UNCHANGED ret
    /\ UNCHANGED <<tables, userSeq, articleSeq, stickerSeq, req, tx, locals, pre>>

(* updateUser: user.update where id with the request as data; whatever it  *)
(* rejects with, the service throws InternalServerErrorException           *)
UpdateUserRow(p) ==
    /\ pc[p] = "uu_write"
    /\ LET rows == UserFindUnique(req[p].id) IN
         \/ Finish(p, InternalServerErrorException) /\ UNCHANGED users
         \/ IF rows = {} \/ LoginConflict(users \ rows, req[p].login)
            THEN Finish(p, InternalServerErrorException) /\ UNCHANGED users
            ELSE /\ users' = (users \ rows) \cup {[r EXCEPT !.login = req[p].login] : r \in rows}
                 /\ Finish(p, "OK")
    /\ UNCHANGED <<articles, stickers, links, userSeq, articleSeq, stickerSeq, req, tx, locals, pre>>

UserDeletes == {[NoRequest EXCEPT !.op = "deleteUser", !.id = i] : i \in 1..MaxUserId}

CallDeleteUser(p, snapshot) ==
    \E user \in UserDeletes : Call(p, user, "du_find", snapshot)

(* deleteUser: user.findUnique by id, NotFoundException                    *)
DeleteUserFind(p) ==
    /\ pc[p] = "du_find"
    /\ LET existUser == UserFindUnique(req[p].id) IN
         IF existUser = {}
         THEN Finish(p, NotFoundException)
         ELSE /\ pc' = [pc EXCEPT ![p] = "du_write"]
              /\ UNCHANGED ret
    /\ UNCHANGED <<tables, userSeq, articleSeq, stickerSeq, req, tx, locals, pre>>

(* article.userId references user: the articles that hold a user's row     *)
ArticlesOfUser(rows, id) == {a \in rows : a.userId = id}

(* deleteUser: user.delete where id, one statement that commits by itself; *)
(* its rejection is the call's rejection. It waits for an open transaction *)
(* that has inserted or deleted an article of the user; a user who still   *)
(* has articles is rejected ("Foreign key constraint failed").             *)
DeleteUserRow(p) ==
    /\ pc[p] = "du_write"
    /\ LET rows == UserFindUnique(req[p].id) IN
         \/ Finish(p, DatabaseError) /\ UNCHANGED users
         \/ /\ ArticlesOfUser(OthersInserted(p, "articles") \cup OthersDeleted(p, "articles"), req[p].id) = {}
            /\ IF rows = {}
               THEN Finish(p, RecordNotFoundError) /\ UNCHANGED users
               ELSE IF ArticlesOfUser(articles, req[p].id) # {}
               THEN Finish(p, ForeignKeyError) /\ UNCHANGED users
               ELSE /\ users' = users \ rows
                    /\ Finish(p, "OK")
    /\ UNCHANGED <<articles, stickers, links, userSeq, articleSeq, stickerSeq, req, tx, locals, pre>>

(* ------------------------------ behaviours ----------------------------- *)
Run(p) ==
    \/ CreateFindUser(p)
    \/ CreateFindTitle(p)
    \/ CreateFindSticker(p)
    \/ CreateSticker(p)
    \/ CreateArticleRow(p)
    \/ CreateLinks(p)
    \/ GetArticleById(p)
    \/ UpdateFindArticle(p)
    \/ UpdateArticleRow(p)
    \/ DeleteFindArticle(p)
    \/ DeleteFindLinks(p)
    \/ DeleteLinks(p)
    \/ DeleteCount(p)
    \/ DeleteSticker(p)
    \/ DeleteArticleRow(p)
    \/ Commit(p)
    \/ TxFault(p)
    \/ Return(p)

(* requests interleave at every await                                      *)
Next ==
    \E p \in Procs :
        \/ CallCreateArticle(p, ConcurrentRequests, NoSnapshot)
        \/ CallGetArticle(p, NoSnapshot)
        \/ CallUpdateArticle(p, ConcurrentUpdates, NoSnapshot)
        \/ CallDeleteArticle(p, NoSnapshot)
        \/ Run(p)
Spec == Init /\ [][Next]_vars

(* one request at a time; pre[p] is the committed rows at p's call         *)
SeqNext ==
    \E p \in Procs :
        \/ Alone(p) /\ CallCreateArticle(p, ArticleRequestTo, Committed)
        \/ Alone(p) /\ CallGetArticle(p, Committed)
        \/ Alone(p) /\ CallUpdateArticle(p, ArticleUpdates, Committed)
        \/ Alone(p) /\ CallDeleteArticle(p, Committed)
        \/ Run(p)
SeqSpec == Init /\ [][SeqNext]_vars

RunUser(p) ==
    \/ CreateUserFind(p)
    \/ CreateUserHash(p)
    \/ CreateUserRow(p)
    \/ UpdateUserFind(p)
    \/ UpdateUserRow(p)
    \/ Return(p)

(* the requests of UsersService, interleaved at every await                *)
UserNext ==
    \E p \in Procs :
        \/ CallCreateUser(p, NoSnapshot)
        \/ CallUpdateUser(p, NoSnapshot)
        \/ RunUser(p)
UserSpec == Init /\ [][UserNext]_vars

(* the requests of UsersService, one at a time                             *)
UserSeqNext ==
    \E p \in Procs :
        \/ Alone(p) /\ CallCreateUser(p, Committed)
        \/ Alone(p) /\ CallUpdateUser(p, Committed)
        \/ RunUser(p)
UserSeqSpec == Init /\ [][UserSeqNext]_vars

(* createArticle and updateArticle without stickers, interleaved with      *)
(* deleteUser                                                              *)
OwnerRequests == {r \in ArticleRequestTo : ~r.stickers.given}
OwnerUpdates == {r \in ArticleUpdates : ~r.stickers.given}

OwnerRun(p) ==
    \/ CreateFindUser(p)
    \/ CreateFindTitle(p)
    \/ CreateArticleRow(p)
    \/ Commit(p)
    \/ TxFault(p)
    \/ UpdateFindArticle(p)
    \/ UpdateArticleRow(p)
    \/ DeleteUserFind(p)
    \/ DeleteUserRow(p)
    \/ Return(p)

OwnerNext ==
    \E p \in Procs :
        \/ CallCreateArticle(p, OwnerRequests, NoSnapshot)
        \/ CallUpdateArticle(p, OwnerUpdates, NoSnapshot)
        \/ CallDeleteUser(p, NoSnapshot)
        \/ OwnerRun(p)
OwnerSpec == Init /\ [][OwnerNext]_vars

(* createArticle and deleteArticle interleaved; a request that has a step  *)
(* to take takes one: the event loop resumes every settled await, and a    *)
(* statement that waits inside a transaction is ended by the database      *)
TermRun(p) ==
    \/ CreateFindUser(p)
    \/ CreateFindTitle(p)
    \/ CreateFindSticker(p)
    \/ CreateSticker(p)
    \/ CreateArticleRow(p)
    \/ CreateLinks(p)
    \/ DeleteFindArticle(p)
    \/ DeleteFindLinks(p)
    \/ DeleteLinks(p)
    \/ DeleteCount(p)
    \/ DeleteSticker(p)
    \/ DeleteArticleRow(p)
    \/ Commit(p)
    \/ TxFault(p)
    \/ Return(p)

(* the creates that run here: an existing owner, no list or one name       *)
TermRequests ==
    {r \in ConcurrentRequests : r.userId = 1 /\ r.stickers.given = (Len(r.stickers.names) = 1)}

TermNext ==
    \E p \in Procs :
        \/ CallCreateArticle(p, TermRequests, NoSnapshot)
        \/ CallDeleteArticle(p, NoSnapshot)
        \/ TermRun(p)
TermSpec == Init /\ [][TermNext]_vars /\ \A p \in Procs : WF_vars(TermRun(p))

(* ------------------------------ properties ----------------------------- *)
Done(p, op) == pc[p] = "done" /\ req[p].op = op
Succeeded(p, op) == Done(p, op) /\ ret[p] = "OK"
LinkedTo(rows, articleId) == {l.stickerId : l \in {m \in rows : m.articleId = articleId}}
LinkedElsewhere(rows, articleId) == {l.stickerId : l \in {m \in rows : m.articleId # articleId}}
StickerIdsOf(rows) == {s.id : s \in rows}
UserIdsOf(rows) == {u.id : u \in rows}
WithTitle(rows, title) == {a \in rows : a.title = title}
WithId(rows, id) == {r \in rows : r.id = id}
Named(rows, name) == {s \in rows : s.name = name}
LinksOf(rows, articleId) == {l \in rows : l.articleId = articleId}

(* C1: after a deleteArticle(X) that succeeds with no other request        *)
(* running, no sticker that was linked to X and to no other article exists *)
OrphanCleanup ==
    \A p \in Procs :
        Succeeded(p, "delete") =>
            \A s \in pre[p].stickers :
                (s.id \in LinkedTo(pre[p].links, req[p].id) \ LinkedElsewhere(pre[p].links, req[p].id))
                    => s \notin stickers
OrphanCleanupWitness ==
    \E p \in Procs :
        /\ Succeeded(p, "delete")
        /\ \E s \in pre[p].stickers :
              /\ s.id \in LinkedTo(pre[p].links, req[p].id) \ LinkedElsewhere(pre[p].links, req[p].id)
              /\ s \notin stickers
        /\ links # {}

(* C2: after a deleteArticle(X) that succeeds, a sticker that was linked   *)
(* to X and to another article Y still exists, and so does Y's link to it  *)
SharedTagRetention ==
    \A p \in Procs :
        Succeeded(p, "delete") =>
            \A l \in pre[p].links :
                (l.articleId # req[p].id /\ l.stickerId \in LinkedTo(pre[p].links, req[p].id))
                    => /\ l \in links
                       /\ WithId(stickers, l.stickerId) = WithId(pre[p].stickers, l.stickerId)
                       /\ WithId(stickers, l.stickerId) # {}
SharedTagRetentionWitness ==
    \E p \in Procs :
        /\ Succeeded(p, "delete")
        /\ \E l \in links :
              /\ l.articleId # req[p].id
              /\ l.stickerId \in LinkedTo(pre[p].links, req[p].id)
              /\ WithId(stickers, l.stickerId) # {}

(* a create call that passes both checks: the owner exists, the title is   *)
(* free                                                                    *)
Admissible(p) ==
    /\ req[p].userId \in UserIdsOf(pre[p].users)
    /\ WithTitle(pre[p].articles, req[p].title) = {}
Repeats(names) == \E i, j \in DOMAIN names : i # j /\ names[i] = names[j]
NewNames(p) == \A i \in DOMAIN req[p].stickers.names :
                  Named(pre[p].stickers, req[p].stickers.names[i]) = {}

(* C3: a createArticle whose tag list repeats a name, none of the names    *)
(* existing beforehand, succeeds and leaves one sticker row per distinct   *)
(* name and one link row from the new article to each of them              *)
TagIdempotence ==
    \A p \in Procs :
        (/\ Done(p, "create")
         /\ Admissible(p)
         /\ Repeats(req[p].stickers.names)
         /\ NewNames(p)
         /\ ret[p] # DatabaseError)
            => /\ ret[p] = "OK"
               /\ \A n \in Range(req[p].stickers.names) :
                     /\ Cardinality(Named(stickers, n)) = 1
                     /\ StickerIdsOf(Named(stickers, n)) \subseteq LinkedTo(links, newArticle[p].id)
               /\ Cardinality(LinksOf(links, newArticle[p].id))
                     = Cardinality(Range(req[p].stickers.names))

(* C4: a createArticle whose transaction fails at any step leaves the      *)
(* committed rows as they were before the call: no article row, no link    *)
(* row and no sticker row of the call remains                              *)
CreateAtomicity ==
    \A p \in Procs :
        (Done(p, "create") /\ ret[p] \in PersistenceErrors) => Committed = pre[p]
CreateAtomicityWitness ==
    \E p \in Procs :
        /\ Done(p, "create")
        /\ ret[p] = DatabaseError
        /\ newArticle[p] # NoArticle
        /\ \E i \in DOMAIN stickerRecords[p] : stickerRecords[p][i] \notin pre[p].stickers
        /\ Committed = pre[p]

(* C5: a createArticle whose title an article already has (the owner       *)
(* existing) fails with the title-conflict error, opens no transaction and *)
(* leaves the article, sticker and link tables unchanged                   *)
TitleConflictOnCreate ==
    \A p \in Procs :
        (/\ Done(p, "create")
         /\ req[p].userId \in UserIdsOf(pre[p].users)
         /\ WithTitle(pre[p].articles, req[p].title) # {})
            => /\ ret[p] = ForbiddenException
               /\ tx[p].status = "none"
               /\ Committed = pre[p]
TitleConflictOnCreateWitness ==
    \E p \in Procs :
        /\ Done(p, "create")
        /\ req[p].userId \in UserIdsOf(pre[p].users)
        /\ WithTitle(pre[p].articles, req[p].title) # {}
        /\ req[p].stickers.names # <<>>
        /\ NewNames(p)
        /\ ret[p] = ForbiddenException

(* C6: a createArticle whose owner id matches no user fails with the       *)
(* owner-missing error before any row is written: no transaction is opened *)
(* and the sticker, article and link tables are unchanged                  *)
OwnerExistenceOnCreate ==
    \A p \in Procs :
        (Done(p, "create") /\ req[p].userId \notin UserIdsOf(pre[p].users))
            => /\ ret[p] = UnauthorizedException
               /\ tx[p].status = "none"
               /\ Committed = pre[p]
OwnerExistenceOnCreateWitness ==
    \E p \in Procs :
        /\ Done(p, "create")
        /\ req[p].userId \notin UserIdsOf(pre[p].users)
        /\ req[p].stickers.names # <<>>
        /\ NewNames(p)
        /\ WithTitle(pre[p].articles, req[p].title) = {}
        /\ ret[p] = UnauthorizedException

(* C7: after a deleteArticle(id) that succeeds there is no link row of the *)
(* article and no article row with that id; and in no committed state is   *)
(* an article row gone while a link row of it remains, or a link row of an *)
(* article gone while the article row remains                              *)
DeleteRemovesLinksAndArticle ==
    /\ [](\A p \in Procs :
            Succeeded(p, "delete") =>
                WithId(articles, req[p].id) = {} /\ LinksOf(links, req[p].id) = {})
    /\ [](\A l \in links : WithId(articles, l.articleId) # {})
    /\ [][\A a \in articles :
            /\ WithId(articles', a.id) = {} => LinksOf(links', a.id) = {}
            /\ LinksOf(links, a.id) \ links' # {} => WithId(articles', a.id) = {}]_vars
DeleteRemovesLinksAndArticleWitness ==
    \E p \in Procs :
        /\ Succeeded(p, "delete")
        /\ stickerIds[p] # <<>>
        /\ WithId(articles, req[p].id) = {}
        /\ LinksOf(links, req[p].id) = {}

(* C8: getArticleById of an id that no article has fails with the          *)
(* not-found error                                                         *)
FetchMissingIsNotFound ==
    \A p \in Procs :
        (Done(p, "get") /\ WithId(pre[p].articles, req[p].id) = {})
            => ret[p] = NotFoundException

(* C9: a deleteArticle whose transaction fails at any step leaves the      *)
(* article row, its link rows and the stickers it was linked to as they    *)
(* were before the call                                                    *)
DeleteRollback ==
    \A p \in Procs :
        (Done(p, "delete") /\ ret[p] \in PersistenceErrors) => Committed = pre[p]
DeleteRollbackWitness ==
    \E p \in Procs :
        /\ Done(p, "delete")
        /\ ret[p] = DatabaseError
        /\ idx[p] > 1
        /\ stickerIds[p][1] \notin LinkedElsewhere(pre[p].links, req[p].id)
        /\ WithId(articles, req[p].id) # {}
        /\ LinksOf(links, req[p].id) # {}
        /\ Committed = pre[p]

(* C10: deleteArticle of an id that no article has fails with the          *)
(* not-found error without opening a transaction, and changes no article,  *)
(* link or sticker row                                                     *)
DeleteMissingIsNotFound ==
    \A p \in Procs :
        (Done(p, "delete") /\ WithId(pre[p].articles, req[p].id) = {})
            => /\ ret[p] = NotFoundException
               /\ tx[p].status = "none"
               /\ Committed = pre[p]
DeleteMissingIsNotFoundWitness ==
    \E p \in Procs :
        /\ Done(p, "delete")
        /\ WithId(pre[p].articles, req[p].id) = {}
        /\ pre[p].articles # {}
        /\ ret[p] = NotFoundException

(* C11: updateArticle of an id that no article has fails with the          *)
(* not-found error, the one deleteArticle reports for a missing article    *)
UpdateMissingIsNotFound ==
    \A p \in Procs :
        (Done(p, "update") /\ WithId(pre[p].articles, req[p].id) = {})
            => ret[p] = NotFoundException

(* C12: an updateArticle of an id that no article has never reaches the    *)
(* update statement, and when it has failed every user, article, link and  *)
(* sticker row is as before the call                                       *)
UpdateMissingWritesNothing ==
    \A p \in Procs :
        (req[p].op = "update" /\ WithId(pre[p].articles, req[p].id) = {})
            => /\ pc[p] # "u_write"
               /\ Done(p, "update") => (ret[p] # "OK" /\ Committed = pre[p])
UpdateMissingWritesNothingWitness ==
    \E p \in Procs :
        /\ Done(p, "update")
        /\ WithId(pre[p].articles, req[p].id) = {}
        /\ pre[p].articles # {}
        /\ WithTitle(pre[p].articles, req[p].title) = {}
        /\ ret[p] = UnauthorizedException

(* C13: an updateArticle of an existing article that does not succeed      *)
(* fails with InternalServerErrorException, which is not the error of a    *)
(* missing article and not an error of the persistence layer, and leaves   *)
(* every row as before the call                                            *)
UpdateFailureIsServerError ==
    \A p \in Procs :
        (Done(p, "update") /\ WithId(pre[p].articles, req[p].id) # {} /\ ret[p] # "OK")
            => /\ ret[p] = InternalServerErrorException
               /\ ret[p] \notin {UnauthorizedException, NotFoundException}
               /\ ret[p] \notin PersistenceErrors
               /\ Committed = pre[p]
UpdateFailureIsServerErrorWitness ==
    \E p \in Procs :
        /\ Done(p, "update")
        /\ WithId(pre[p].articles, req[p].id) # {}
        /\ \E a \in pre[p].articles : a.id # req[p].id /\ a.title = req[p].title
        /\ ~req[p].stickers.given
        /\ ret[p] = InternalServerErrorException
        /\ Committed = pre[p]

(* C14: after an updateArticle that succeeds the article's userId is the   *)
(* userId it had before the call                                           *)
OwnershipNotReassignable ==
    \A p \in Procs :
        Succeeded(p, "update") =>
            \A a \in WithId(articles, req[p].id), b \in WithId(pre[p].articles, req[p].id) :
                a.userId = b.userId

(* C15: during and after every updateArticle call, whatever its outcome    *)
(* and its stickers list, the ids of the articles, the link rows and the   *)
(* sticker rows are those of before the call                               *)
UpdateKeepsTagsAndLifecycle ==
    \A p \in Procs :
        req[p].op = "update" =>
            /\ {a.id : a \in articles} = {a.id : a \in pre[p].articles}
            /\ links = pre[p].links
            /\ stickers = pre[p].stickers
UpdateKeepsTagsAndLifecycleWitness ==
    \E p \in Procs :
        /\ Succeeded(p, "update")
        /\ articles # pre[p].articles
        /\ LinksOf(links, req[p].id) # {}
        /\ Cardinality(articles) > 1

(* C16: in every committed state no two article rows have the same title   *)
TitleUniqueness ==
    \A a, b \in articles : a.title = b.title => a = b
TitleUniquenessWitness ==
    \E p \in Procs :
        /\ Done(p, "update")
        /\ ret[p] = InternalServerErrorException
        /\ WithId(articles, req[p].id) # {}
        /\ \E a \in articles : a.id # req[p].id /\ a.title = req[p].title
        /\ \E q \in Procs \ {p} : Done(q, "create") /\ ret[q] = UniqueConstraintError

(* C17: with one request at a time, in every committed state a sticker row *)
(* exists if and only if at least one link row references it               *)
StickerLifetime ==
    /\ \A s \in stickers : \E l \in links : l.stickerId = s.id
    /\ \A l \in links : \E s \in stickers : s.id = l.stickerId
StickerLifetimeWitness ==
    \E p \in Procs :
        /\ Succeeded(p, "delete")
        /\ pre[p].stickers \ stickers # {}
        /\ stickers # {}
        /\ \A s \in stickers : \E l \in links : l.stickerId = s.id

(* the loop over the names of a create call is over                        *)
Resolved(p) ==
    /\ req[p].op = "create"
    /\ req[p].stickers.given
    /\ \/ pc[p] \in {"c_article", "c_links", "c_commit"}
       \/ Succeeded(p, "create")
Created(p) == IF tx[p].status = "open" THEN tx[p].ins.stickers ELSE stickers \ pre[p].stickers

(* C18: when the loop of createArticle is over, stickerRecords has one     *)
(* sticker per input name, in input order; a name that had a sticker has   *)
(* that sticker and no new row; a name that had none has one new row,      *)
(* which is the one in stickerRecords                                      *)
TagResolution ==
    \A p \in Procs :
        Resolved(p) =>
            /\ Len(stickerRecords[p]) = Len(req[p].stickers.names)
            /\ \A i \in DOMAIN stickerRecords[p] :
                  LET name == req[p].stickers.names[i] IN
                  /\ stickerRecords[p][i].name = name
                  /\ IF Named(pre[p].stickers, name) # {}
                     THEN /\ stickerRecords[p][i] \in pre[p].stickers
                          /\ Named(Created(p), name) = {}
                     ELSE /\ Named(Created(p), name) = {stickerRecords[p][i]}
                          /\ stickerRecords[p][i] \notin pre[p].stickers
            /\ Created(p) \subseteq Range(stickerRecords[p])
TagResolutionWitness ==
    \E p \in Procs :
        /\ Succeeded(p, "create")
        /\ Len(stickerRecords[p]) = 2
        /\ stickerRecords[p][1] \notin pre[p].stickers
        /\ stickerRecords[p][2] \in pre[p].stickers
        /\ Cardinality(stickers) = 2

(* C19: a createArticle without a stickers list, or with an empty one,     *)
(* never looks up or creates a sticker and never inserts links; when it    *)
(* passes both checks and the database rejects nothing it creates the      *)
(* article, and the sticker and link rows are those of before the call     *)
CreateWithoutTags ==
    \A p \in Procs :
        (req[p].op = "create" /\ req[p].stickers.names = <<>>)
            => /\ pc[p] \notin {"c_find", "c_sticker", "c_links"}
               /\ stickerRecords[p] = <<>>
               /\ tx[p].ins.stickers = {} /\ tx[p].ins.links = {}
               /\ stickers = pre[p].stickers /\ links = pre[p].links
               /\ (Done(p, "create") /\ Admissible(p) /\ ret[p] # DatabaseError)
                     => /\ ret[p] = "OK"
                        /\ articles = pre[p].articles \cup {newArticle[p]}
                        /\ newArticle[p] \notin pre[p].articles
                        /\ newArticle[p].title = req[p].title
CreateWithoutTagsWitness ==
    \E p \in Procs :
        /\ Succeeded(p, "create")
        /\ req[p].stickers.given
        /\ req[p].stickers.names = <<>>
        /\ stickers # {}
        /\ newArticle[p] \in articles
        /\ LinksOf(links, newArticle[p].id) = {}

(* the rows after createArticle(T, [a, b]) and createArticle(T2, [a]): x   *)
(* is the first article, y the second                                      *)
FirstCreated(T, x) ==
    /\ T.articles = {x}
    /\ x.title = "T"
    /\ {s.name : s \in T.stickers} = {"a", "b"}
    /\ Cardinality(T.stickers) = 2
    /\ T.links = {[articleId |-> x.id, stickerId |-> s.id] : s \in T.stickers}
BothCreated(T, x, y) ==
    /\ T.articles = {x, y}
    /\ x.title = "T" /\ y.title = "T2"
    /\ {s.name : s \in T.stickers} = {"a", "b"}
    /\ Cardinality(T.stickers) = 2
    /\ T.links = {[articleId |-> x.id, stickerId |-> s.id] : s \in T.stickers}
                    \cup {[articleId |-> y.id, stickerId |-> s.id] : s \in Named(T.stickers, "a")}

(* C20: a createArticle(T2, [a]) that succeeds after createArticle(T,      *)
(* [a, b]) leaves one sticker named a, linked to both articles; a          *)
(* deleteArticle of the first article that succeeds after the two leaves   *)
(* no sticker named b, and the sticker named a with its link to the second *)
TagReuseAcrossCalls ==
    \A p \in Procs :
        /\ (/\ Succeeded(p, "create")
            /\ req[p].title = "T2"
            /\ req[p].stickers.names = <<"a">>
            /\ \E x \in pre[p].articles : FirstCreated(pre[p], x))
              => \E x \in pre[p].articles : BothCreated(Committed, x, newArticle[p])
        /\ \A x, y \in pre[p].articles :
              (/\ Succeeded(p, "delete")
               /\ req[p].id = x.id
               /\ BothCreated(pre[p], x, y))
                 => /\ Named(stickers, "b") = {}
                    /\ Named(stickers, "a") = Named(pre[p].stickers, "a")
                    /\ links = {[articleId |-> y.id, stickerId |-> s.id] : s \in Named(stickers, "a")}
                    /\ articles = {y}
TagReuseAcrossCallsWitness ==
    \E p \in Procs :
        /\ Succeeded(p, "delete")
        /\ \E x, y \in pre[p].articles : req[p].id = x.id /\ BothCreated(pre[p], x, y)
        /\ Named(stickers, "b") = {}
        /\ Cardinality(Named(stickers, "a")) = 1
        /\ Cardinality(links) = 1

(* C21: after a createArticle that succeeds the returned row is a new      *)
(* committed article with the owner, title and content of the request, and *)
(* the stickers it is linked to are exactly one per name of the request    *)
CreateResult ==
    \A p \in Procs :
        Succeeded(p, "create") =>
            /\ WithId(articles, newArticle[p].id) = {newArticle[p]}
            /\ WithId(pre[p].articles, newArticle[p].id) = {}
            /\ newArticle[p].userId = req[p].userId
            /\ newArticle[p].title = req[p].title
            /\ newArticle[p].content = req[p].content
            /\ LinkedTo(links, newArticle[p].id) \subseteq StickerIdsOf(stickers)
            /\ {s.name : s \in {t \in stickers : t.id \in LinkedTo(links, newArticle[p].id)}}
                  = Range(req[p].stickers.names)
            /\ Cardinality(LinksOf(links, newArticle[p].id)) = Cardinality(Range(req[p].stickers.names))
CreateResultWitness ==
    \E p \in Procs :
        /\ Succeeded(p, "create")
        /\ pre[p].articles # {}
        /\ Len(req[p].stickers.names) = 2
        /\ Cardinality(LinksOf(links, newArticle[p].id)) = 2
        /\ newArticle[p] \in articles

TxWrote(t) == t.ins # NoRows \/ t.del # NoRows
(* C22: no write of an open transaction is in the committed rows; a commit *)
(* makes all the writes of the transaction visible in one step and an      *)
(* abort none; sticker and link rows change in no other step, article rows *)
(* only there and in the one statement of updateArticle                    *)
AllOrNothingVisibility ==
    /\ [](\A p \in Procs :
            tx[p].status = "open" =>
                /\ tx[p].ins.articles \cap articles = {}
                /\ tx[p].ins.stickers \cap stickers = {}
                /\ tx[p].ins.links \cap links = {}
                /\ tx[p].del.articles \subseteq articles
                /\ tx[p].del.stickers \subseteq stickers
                /\ tx[p].del.links \subseteq links)
    /\ [][\A p \in Procs :
            /\ (tx[p].status = "open" /\ tx'[p].status = "committed")
                  => Committed' = Apply(Committed, tx[p])
            /\ (tx[p].status = "open" /\ tx'[p].status = "rolledback")
                  => Committed' = Committed]_vars
    /\ [][Committed' # Committed =>
            \E p \in Procs :
                \/ tx[p].status = "open" /\ tx'[p].status = "committed"
                \/ /\ pc[p] = "u_write"
                   /\ stickers' = stickers /\ links' = links
                   /\ {a.id : a \in articles'} = {a.id : a \in articles}]_vars
AllOrNothingVisibilityWitness ==
    \E p, q \in Procs :
        /\ tx[p].status = "open"
        /\ pc[p] = "c_commit"
        /\ tx[p].ins.stickers # {} /\ tx[p].ins.links # {}
        /\ Done(q, "get")
        /\ req[q].id = newArticle[p].id
        /\ ret[q] = UnauthorizedException

(* C23: two createArticle calls can both find no sticker of a name and     *)
(* both create one. When the second of them commits while the row of the   *)
(* first is there, two sticker rows of that name are committed, each       *)
(* linked to the article of the call that created it; a call whose sticker *)
(* creation is rejected as a duplicate fails with that persistence error,  *)
(* a row of the name being committed, and writes nothing                   *)
CreateRace ==
    /\ [][\A p, q \in Procs : \A name \in Names :
            (/\ p # q
             /\ tx[p].status = "open" /\ tx'[p].status = "committed"
             /\ Named(tx[p].ins.stickers, name) # {}
             /\ Succeeded(q, "create")
             /\ Named(tx[q].ins.stickers, name) # {}
             /\ Named(tx[q].ins.stickers, name) \subseteq stickers)
                => /\ ret'[p] = "OK"
                   /\ Named(tx[p].ins.stickers, name) \cup Named(tx[q].ins.stickers, name)
                         \subseteq stickers'
                   /\ Cardinality(Named(stickers', name)) >= 2
                   /\ StickerIdsOf(Named(tx[p].ins.stickers, name))
                         \subseteq LinkedTo(links', newArticle[p].id)]_vars
    /\ [][\A p \in Procs :
            (pc[p] = "c_sticker" /\ pc'[p] = "done" /\ ret'[p] # DatabaseError)
                => /\ ret'[p] = UniqueConstraintError
                   /\ Named(stickers, req[p].stickers.names[idx[p]]) # {}
                   /\ tx'[p].status = "rolledback"
                   /\ Committed' = Committed]_vars
CreateRaceWitness ==
    \E p, q \in Procs :
        /\ p # q
        /\ Succeeded(p, "create") /\ Succeeded(q, "create")
        /\ Named(tx[p].ins.stickers, "a") # {} /\ Named(tx[q].ins.stickers, "a") # {}
        /\ Named(tx[p].ins.stickers, "a") \cup Named(tx[q].ins.stickers, "a") \subseteq stickers
        /\ Cardinality(Named(stickers, "a")) = 2
        /\ Cardinality(links) = 2

(* two deleteArticle transactions are open on two different articles, each *)
(* has deleted its article's link to sticker s, and no third article is    *)
(* linked to s                                                             *)
DeleteRacing(p, q, s) ==
    /\ p # q
    /\ req[p].op = "delete" /\ req[q].op = "delete"
    /\ req[p].id # req[q].id
    /\ tx[p].status = "open" /\ tx[q].status = "open"
    /\ [articleId |-> req[p].id, stickerId |-> s] \in tx[p].del.links
    /\ [articleId |-> req[q].id, stickerId |-> s] \in tx[q].del.links
    /\ \A l \in links : l.stickerId = s => l.articleId \in {req[p].id, req[q].id}
CountingSticker(p, s) == pc[p] = "d_count" /\ stickerIds[p][idx[p]] = s
OtherLinksSeen(p, s) == {l \in View(p).links : l.stickerId = s /\ l.articleId # req[p].id}
DeletingSticker(p, s) ==
    \/ pc[p] = "d_sticker" /\ stickerIds[p][idx[p]] = s
    \/ s \in StickerIdsOf(tx[p].del.stickers)

CreateCheckOrder ==
    \A p \in Procs :
        req[p].op = "create" =>
            /\ pc[p] = "c_title" => req[p].userId \in UserIdsOf(pre[p].users)
            /\ tx[p].status # "none" => Admissible(p)
            /\ (/\ pc[p] = "done"
                /\ req[p].userId \notin UserIdsOf(pre[p].users)
                /\ WithTitle(pre[p].articles, req[p].title) # {})
                  => /\ ret[p] = UnauthorizedException
                     /\ tx[p].status = "none"
                     /\ Committed = pre[p]
CreateCheckOrderWitness ==
    \E p \in Procs :
        /\ Done(p, "create")
        /\ req[p].userId \notin UserIdsOf(pre[p].users)
        /\ WithTitle(pre[p].articles, req[p].title) # {}
        /\ ret[p] = UnauthorizedException
        /\ tx[p].status = "none"

(* C28: in the transaction of deleteArticle nothing is deleted before the  *)
(* link rows; while a count is taken or a sticker deleted the article has  *)
(* no link row left, so that no count includes one, and its row is not yet *)
(* deleted; the article row is deleted after the last count                *)
DeleteOrdering ==
    \A p \in Procs :
        req[p].op = "delete" =>
            /\ pc[p] \in {"d_links", "d_unlink"} => ~TxWrote(tx[p])
            /\ pc[p] \in {"d_count", "d_sticker"} =>
                  /\ LinksOf(View(p).links, req[p].id) = {}
                  /\ LinksOf(pre[p].links, req[p].id) \subseteq tx[p].del.links
                  /\ tx[p].del.articles = {}
            /\ tx[p].del.stickers # {} => LinksOf(pre[p].links, req[p].id) \subseteq tx[p].del.links
            /\ tx[p].del.articles # {} =>
                  /\ idx[p] > Len(stickerIds[p])
                  /\ LinksOf(View(p).links, req[p].id) = {}
DeleteOrderingWitness ==
    \E p \in Procs :
        /\ req[p].op = "delete"
        /\ pc[p] = "d_sticker"
        /\ idx[p] = 2
        /\ tx[p].del.stickers # {}
        /\ Cardinality(tx[p].del.links) = 2
        /\ tx[p].del.articles = {}

(* C29: an updateArticle whose write finds no article with the id ends     *)
(* with the error of a missing article, not with                           *)
(* InternalServerErrorException                                            *)
MissingArticleIsNeverServerError ==
    [][\A p \in Procs :
            (/\ pc[p] = "u_write"
             /\ pc'[p] = "done"
             /\ WithId(articles, req[p].id) = {})
                => ret'[p] \in {UnauthorizedException, NotFoundException}]_vars

NoLeakedOrphan ==
    \A p, q \in Procs : \A s \in 1..MaxStickerId :
        (/\ p # q
         /\ Succeeded(p, "delete") /\ Succeeded(q, "delete")
         /\ req[p].id # req[q].id
         /\ [articleId |-> req[p].id, stickerId |-> s] \in tx[p].del.links
         /\ [articleId |-> req[q].id, stickerId |-> s] \in tx[q].del.links
         /\ \A l \in links : l.stickerId # s)
            => WithId(stickers, s) = {}

(* C32: every committed link row references an article that exists and a   *)
(* sticker that exists                                                     *)
LinkIntegrity ==
    \A l \in links :
        /\ WithId(articles, l.articleId) # {}
        /\ WithId(stickers, l.stickerId) # {}
LinkIntegrityWitness ==
    \E p, q \in Procs : \E i \in 1..MaxTags :
        /\ Done(p, "create")
        /\ ret[p] = ForeignKeyError
        /\ i \in DOMAIN stickerRecords[p]
        /\ stickerRecords[p][i] \notin tx[p].ins.stickers
        /\ Succeeded(q, "delete")
        /\ stickerRecords[p][i] \in tx[q].del.stickers
        /\ WithId(stickers, stickerRecords[p][i].id) = {}
        /\ LinksOf(links, newArticle[p].id) = {}

(* C33: of two deleteArticle calls for the same id that both found the     *)
(* article, neither of them ended by a fault of the database or by a       *)
(* foreign key, one succeeds and the other ends with NotFoundException     *)
DoubleDeleteOneNotFound ==
    \A p, q \in Procs :
        (/\ p # q
         /\ Done(p, "delete") /\ Done(q, "delete")
         /\ req[p].id = req[q].id
         /\ tx[p].status # "none" /\ tx[q].status # "none"
         /\ {ret[p], ret[q]} \cap {DatabaseError, ForeignKeyError} = {})
            => {ret[p], ret[q]} = {"OK", NotFoundException}

DeleteFrame ==
    \A p \in Procs :
        Succeeded(p, "delete") =>
            /\ articles \ WithId(articles, req[p].id) = pre[p].articles \ WithId(pre[p].articles, req[p].id)
            /\ links \ LinksOf(links, req[p].id) = pre[p].links \ LinksOf(pre[p].links, req[p].id)
            /\ {s \in stickers : s.id \notin LinkedTo(pre[p].links, req[p].id)}
                  = {s \in pre[p].stickers : s.id \notin LinkedTo(pre[p].links, req[p].id)}
            /\ users = pre[p].users
DeleteFrameWitness ==
    \E p \in Procs :
        /\ Succeeded(p, "delete")
        /\ pre[p].articles \ WithId(pre[p].articles, req[p].id) # {}
        /\ pre[p].links \ LinksOf(pre[p].links, req[p].id) # {}
        /\ \E s \in pre[p].stickers : s.id \notin LinkedTo(pre[p].links, req[p].id)
        /\ tx[p].del.stickers # {}

(* C36: a call that is not running has no open transaction, the loops stay *)
(* within the list they run over, the list of deleteArticle being as long  *)
(* as the article has links, and every createArticle and                   *)
(* deleteArticle call that has started ends, its transaction committed or  *)
(* rolled back if it was begun                                             *)
CallsTerminate ==
    /\ [](\A p \in Procs :
            /\ pc[p] \in {"idle", "done"} => tx[p].status # "open"
            /\ pc[p] \in {"c_find", "c_sticker"} => idx[p] \in 1..Len(req[p].stickers.names)
            /\ pc[p] \in {"d_count", "d_sticker"} => idx[p] \in 1..Len(stickerIds[p]))
    /\ [][\A p \in Procs :
            (pc[p] = "d_links" /\ pc'[p] = "d_unlink")
                => Len(stickerIds'[p]) = Cardinality(LinksOf(links, req[p].id))]_vars
    /\ \A p \in Procs :
          (pc[p] \notin {"idle", "done"})
              ~> (pc[p] = "done" /\ tx[p].status \in {"none", "committed", "rolledback"})
CallsTerminateWitness ==
    \E p, q \in Procs :
        /\ Done(p, "create") /\ tx[p].status = "rolledback" /\ ret[p] = DatabaseError
        /\ Len(stickerRecords[p]) = 1
        /\ Done(q, "delete") /\ tx[q].status = "committed"
        /\ tx[q].del.stickers # {}
====
